---- MODULE Spec2Model ----
(***************************************************************************)
(* Wayfinding core: the WayfindingGraph and the Pathfinder of              *)
(* src/src/core/pathfinding.js (first definitions in the file, lines       *)
(* 1-407), as a state machine.  The graph is built by addNode / addEdge;   *)
(* findPath is a synchronous call, so it is one action that runs the       *)
(* whole breadth-first search and records what it returned together with   *)
(* the loop's final queue, visited set and iteration counter.              *)
(***************************************************************************)
EXTENDS Integers, Sequences, FiniteSets, TLC

VARIABLES nodes, adjacencyList, nodeTypes, nodeCoordinates, call, ret

vars == <<nodes, adjacencyList, nodeTypes, nodeCoordinates, call, ret>>

(***************************************************************************)
(* Bounds of the model.                                                    *)
(***************************************************************************)
\* explicit maxDepth values passed by callers are 0..MaxDepthArg (and the default)
MaxDepthArg == 2
\* explicit maxPaths values passed by callers are 0..MaxPathsArg (and the default)
MaxPathsArg == 2
\* callers pass excludeNodes sets of at most this many ids
MaxExclude == 1

(***************************************************************************)
(* Program constants.                                                      *)
(***************************************************************************)
NODE_TYPES ==
  [WAYPOINT |-> "waypoint", DI_BOX |-> "di_box", CABINET |-> "cabinet",
   FOSSIL |-> "fossil", UNKNOWN |-> "unknown"]

DefaultMaxDepth == 1000

DefaultMaxPaths == 3

\* addNode accepts any type string; "exhibit" stands for a tag outside NODE_TYPES
OtherType == "exhibit"

TypeTags ==
  {NODE_TYPES.WAYPOINT, NODE_TYPES.DI_BOX, NODE_TYPES.CABINET,
   NODE_TYPES.FOSSIL, NODE_TYPES.UNKNOWN, OtherType}

\* node ids are opaque non-empty strings; the callers use these three
NodeIds == {"n1", "n2", "n3"}

\* ids addNode rejects: '' and strings that trim() to ''
BlankIds == {"", " "}

\* coordinates arguments: null, or a value that is an array (with items) or not
NullCoordinates == [kind |-> "null", items |-> <<>>]

ArrayCoordinates(items) == [kind |-> "array", items |-> items]

ScalarCoordinates == [kind |-> "scalar", items |-> <<>>]

(***************************************************************************)
(* Helpers for JS Set semantics: a Set keeps insertion order, so a          *)
(* neighbour set is a sequence without repetitions.                        *)
(***************************************************************************)
Range(s) == {s[i] : i \in 1..Len(s)}

SetAdd(s, x) == IF x \in Range(s) THEN s ELSE Append(s, x)

Graph ==
  [nodes |-> nodes, adjacencyList |-> adjacencyList, nodeTypes |-> nodeTypes,
   nodeCoordinates |-> nodeCoordinates]

(***************************************************************************)
(* WayfindingGraph read operations, on a graph value g.                    *)
(***************************************************************************)
hasNode(g, nodeId) == nodeId \in g.nodes

getNodeType(g, nodeId) ==
  IF nodeId \in DOMAIN g.nodeTypes /\ g.nodeTypes[nodeId] # ""
  THEN g.nodeTypes[nodeId]
  ELSE NODE_TYPES.UNKNOWN

getNeighbors(g, nodeId) ==
  IF nodeId \in DOMAIN g.adjacencyList THEN g.adjacencyList[nodeId] ELSE <<>>

getNodeCoordinates(g, nodeId) ==
  IF nodeId \in DOMAIN g.nodeCoordinates
  THEN ArrayCoordinates(g.nodeCoordinates[nodeId])
  ELSE NullCoordinates

(***************************************************************************)
(* Pathfinder: the routing predicate.                                      *)
(***************************************************************************)
\* mutant: fossil is forgotten in the list of fixture types
_isFixtureType_noFossil(nodeType) ==
  \/ nodeType = NODE_TYPES.DI_BOX
  \/ nodeType = NODE_TYPES.CABINET

_isFixtureType(nodeType) ==
  \/ nodeType = NODE_TYPES.DI_BOX
  \/ nodeType = NODE_TYPES.CABINET
  \/ nodeType = NODE_TYPES.FOSSIL

\* mutant: the flag is tested first and allows every hop
_canVisitNeighbor_flagFirst(currentType, neighborType, allowDirectFixtureConnections) ==
  IF allowDirectFixtureConnections
  THEN TRUE
  ELSE \/ currentType = NODE_TYPES.WAYPOINT /\ neighborType = NODE_TYPES.WAYPOINT
       \/ _isFixtureType(currentType) /\ neighborType = NODE_TYPES.WAYPOINT
       \/ currentType = NODE_TYPES.WAYPOINT /\ _isFixtureType(neighborType)

\* mutant: the flag unlocks every hop between two non-waypoints
_canVisitNeighbor_flagUnlocks(currentType, neighborType, allowDirectFixtureConnections) ==
  IF currentType = NODE_TYPES.WAYPOINT \/ neighborType = NODE_TYPES.WAYPOINT
  THEN TRUE
  ELSE allowDirectFixtureConnections

\* mutant: a fixture -> fixture hop is allowed when the flag is set
_canVisitNeighbor_fixtureFlag(currentType, neighborType, allowDirectFixtureConnections) ==
  IF currentType = NODE_TYPES.WAYPOINT /\ neighborType = NODE_TYPES.WAYPOINT
  THEN TRUE
  ELSE IF _isFixtureType(currentType) /\ neighborType = NODE_TYPES.WAYPOINT
  THEN TRUE
  ELSE IF currentType = NODE_TYPES.WAYPOINT /\ _isFixtureType(neighborType)
  THEN TRUE
  ELSE IF _isFixtureType(currentType) /\ _isFixtureType(neighborType)
  THEN allowDirectFixtureConnections
  ELSE IF currentType = NODE_TYPES.UNKNOWN \/ neighborType = NODE_TYPES.UNKNOWN
  THEN allowDirectFixtureConnections
  ELSE FALSE

\* mutant: the waypoint -> fixture rule is missing
_canVisitNeighbor_oneWay(currentType, neighborType, allowDirectFixtureConnections) ==
  IF currentType = NODE_TYPES.WAYPOINT /\ neighborType = NODE_TYPES.WAYPOINT
  THEN TRUE
  ELSE IF _isFixtureType(currentType) /\ neighborType = NODE_TYPES.WAYPOINT
  THEN TRUE
  ELSE IF _isFixtureType(currentType) /\ _isFixtureType(neighborType)
  THEN FALSE
  ELSE IF currentType = NODE_TYPES.UNKNOWN \/ neighborType = NODE_TYPES.UNKNOWN
  THEN allowDirectFixtureConnections
  ELSE FALSE

\* mutant: a hop with an Unknown side is allowed whatever the flag is
_canVisitNeighbor_unknownAllowed(currentType, neighborType, allowDirectFixtureConnections) ==
  IF currentType = NODE_TYPES.WAYPOINT /\ neighborType = NODE_TYPES.WAYPOINT
  THEN TRUE
  ELSE IF _isFixtureType(currentType) /\ neighborType = NODE_TYPES.WAYPOINT
  THEN TRUE
  ELSE IF currentType = NODE_TYPES.WAYPOINT /\ _isFixtureType(neighborType)
  THEN TRUE
  ELSE IF _isFixtureType(currentType) /\ _isFixtureType(neighborType)
  THEN FALSE
  ELSE IF currentType = NODE_TYPES.UNKNOWN \/ neighborType = NODE_TYPES.UNKNOWN
  THEN TRUE
  ELSE FALSE

_canVisitNeighbor(currentType, neighborType, allowDirectFixtureConnections) ==
  IF currentType = NODE_TYPES.WAYPOINT /\ neighborType = NODE_TYPES.WAYPOINT
  THEN TRUE
  ELSE IF _isFixtureType(currentType) /\ neighborType = NODE_TYPES.WAYPOINT
  THEN TRUE
  ELSE IF currentType = NODE_TYPES.WAYPOINT /\ _isFixtureType(neighborType)
  THEN TRUE
  ELSE IF _isFixtureType(currentType) /\ _isFixtureType(neighborType)
  THEN FALSE
  ELSE IF currentType = NODE_TYPES.UNKNOWN \/ neighborType = NODE_TYPES.UNKNOWN
  THEN allowDirectFixtureConnections
  ELSE FALSE

(***************************************************************************)
(* Pathfinder.findPath.  A search state st is                              *)
(*   [queue, visited, iterations, found]                                   *)
(* where found is the path the loop returned, or <<>> while it has not.    *)
(***************************************************************************)
NoPath == <<>>

Options(allowDirectFixtureConnections, maxDepth, excludeNodes) ==
  [allowDirectFixtureConnections |-> allowDirectFixtureConnections,
   maxDepth |-> maxDepth, excludeNodes |-> excludeNodes]

\* mutant: the routing constraint is not applied
VisitNeighbor_noConstraint(g, targetId, options, currentPath, neighbor, st) ==
  LET newPath == Append(currentPath, neighbor)
  IN  IF neighbor \in st.visited \/ neighbor \in options.excludeNodes
      THEN st
      ELSE IF neighbor = targetId
      THEN [st EXCEPT !.found = newPath]
      ELSE [st EXCEPT !.visited = @ \cup {neighbor}, !.queue = Append(@, newPath)]

\* mutant: the neighbor is marked visited before the routing constraint is applied
VisitNeighbor_marksRejected(g, targetId, options, currentPath, neighbor, st) ==
  LET currentNodeType == getNodeType(g, currentPath[Len(currentPath)])
      neighborType == getNodeType(g, neighbor)
      newPath == Append(currentPath, neighbor)
  IN  IF neighbor \in st.visited \/ neighbor \in options.excludeNodes
      THEN st
      ELSE IF ~_canVisitNeighbor(currentNodeType, neighborType,
                                 options.allowDirectFixtureConnections)
      THEN [st EXCEPT !.visited = @ \cup {neighbor}]
      ELSE IF neighbor = targetId
      THEN [st EXCEPT !.found = newPath]
      ELSE [st EXCEPT !.visited = @ \cup {neighbor}, !.queue = Append(@, newPath)]

\* mutant: the target is accepted before the routing constraint is applied
VisitNeighbor_targetFirst(g, targetId, options, currentPath, neighbor, st) ==
  LET currentNodeType == getNodeType(g, currentPath[Len(currentPath)])
      neighborType == getNodeType(g, neighbor)
      newPath == Append(currentPath, neighbor)
  IN  IF neighbor \in st.visited \/ neighbor \in options.excludeNodes
      THEN st
      ELSE IF neighbor = targetId
      THEN [st EXCEPT !.found = newPath]
      ELSE IF ~_canVisitNeighbor(currentNodeType, neighborType,
                                 options.allowDirectFixtureConnections)
      THEN st
      ELSE [st EXCEPT !.visited = @ \cup {neighbor}, !.queue = Append(@, newPath)]

\* mutant: excludeNodes is consulted only for neighbors that are not the target
VisitNeighbor_targetNotExcluded(g, targetId, options, currentPath, neighbor, st) ==
  LET currentNodeType == getNodeType(g, currentPath[Len(currentPath)])
      neighborType == getNodeType(g, neighbor)
      newPath == Append(currentPath, neighbor)
  IN  IF neighbor \in st.visited
         \/ (neighbor \in options.excludeNodes /\ neighbor # targetId)
      THEN st
      ELSE IF ~_canVisitNeighbor(currentNodeType, neighborType,
                                 options.allowDirectFixtureConnections)
      THEN st
      ELSE IF neighbor = targetId
      THEN [st EXCEPT !.found = newPath]
      ELSE [st EXCEPT !.visited = @ \cup {neighbor}, !.queue = Append(@, newPath)]

\* mutant: the neighbor is enqueued without being marked visited
VisitNeighbor_notMarked(g, targetId, options, currentPath, neighbor, st) ==
  LET currentNodeType == getNodeType(g, currentPath[Len(currentPath)])
      neighborType == getNodeType(g, neighbor)
      newPath == Append(currentPath, neighbor)
  IN  IF neighbor \in st.visited \/ neighbor \in options.excludeNodes
      THEN st
      ELSE IF ~_canVisitNeighbor(currentNodeType, neighborType,
                                 options.allowDirectFixtureConnections)
      THEN st
      ELSE IF neighbor = targetId
      THEN [st EXCEPT !.found = newPath]
      ELSE [st EXCEPT !.queue = Append(@, newPath)]

\* the body of `for (const neighbor of getNeighbors(currentNode))` for one neighbor
VisitNeighbor(g, targetId, options, currentPath, neighbor, st) ==
  LET currentNodeType == getNodeType(g, currentPath[Len(currentPath)])
      neighborType == getNodeType(g, neighbor)
      newPath == Append(currentPath, neighbor)
  IN  IF neighbor \in st.visited \/ neighbor \in options.excludeNodes
      THEN st
      ELSE IF ~_canVisitNeighbor(currentNodeType, neighborType,
                                 options.allowDirectFixtureConnections)
      THEN st
      ELSE IF neighbor = targetId
      THEN [st EXCEPT !.found = newPath]
      ELSE [st EXCEPT !.visited = @ \cup {neighbor}, !.queue = Append(@, newPath)]

RECURSIVE ExploreNeighbors(_, _, _, _, _, _)
\* the for loop from the i-th neighbor on; `return newPath` leaves it at once
ExploreNeighbors(g, targetId, options, currentPath, i, st) ==
  LET neighbors == getNeighbors(g, currentPath[Len(currentPath)])
  IN  IF i > Len(neighbors) \/ st.found # NoPath
      THEN st
      ELSE ExploreNeighbors(g, targetId, options, currentPath, i + 1,
             VisitNeighbor(g, targetId, options, currentPath, neighbors[i], st))

\* mutant: the for loop starts at the second neighbor
Expand_fromSecond(g, targetId, options, st) ==
  ExploreNeighbors(g, targetId, options, Head(st.queue), 2,
    [st EXCEPT !.iterations = @ + 1, !.queue = Tail(@)])

\* one pass of the while body: iterations++, queue.shift(), the for loop
Expand(g, targetId, options, st) ==
  ExploreNeighbors(g, targetId, options, Head(st.queue), 1,
    [st EXCEPT !.iterations = @ + 1, !.queue = Tail(@)])

\* mutant: iterations <= maxDepth
LoopContinues_inclusive(options, st) ==
  Len(st.queue) > 0 /\ st.iterations <= options.maxDepth

\* the condition of the while loop
LoopContinues(options, st) ==
  Len(st.queue) > 0 /\ st.iterations < options.maxDepth

RECURSIVE SearchLoop(_, _, _, _)
SearchLoop(g, targetId, options, st) ==
  IF st.found # NoPath \/ ~LoopContinues(options, st)
  THEN st
  ELSE SearchLoop(g, targetId, options, Expand(g, targetId, options, st))

NoSearch == [queue |-> <<>>, visited |-> {}, iterations |-> 0, found |-> NoPath]

\* mutant: the queue and the visited set are fields of the Pathfinder that the
\* next call does not reset
SearchStart_keepsState(sourceId) ==
  LET kept == IF call.op = "findPath" /\ ret.status \in {"path", "null"}
              THEN ret.search ELSE NoSearch
  IN  [queue |-> Append(kept.queue, <<sourceId>>),
       visited |-> kept.visited \cup {sourceId},
       iterations |-> 0, found |-> NoPath]

SearchStart(sourceId) ==
  [queue |-> <<(<<sourceId>>)>>, visited |-> {sourceId}, iterations |-> 0,
   found |-> NoPath]

Thrown(code, side, id) ==
  [status |-> "throw", code |-> code, side |-> side, id |-> id, path |-> NoPath,
   search |-> NoSearch]

Ok ==
  [status |-> "ok", code |-> "", side |-> "", id |-> "", path |-> NoPath,
   search |-> NoSearch]

Returned(path, st) ==
  [status |-> IF path = NoPath THEN "null" ELSE "path", code |-> "", side |-> "",
   id |-> "", path |-> path, search |-> st]

\* mutant: the sourceId === targetId shortcut is missing
findPath_noShortcut(g, sourceId, targetId, options) ==
  IF ~hasNode(g, sourceId)
  THEN Thrown("NODE_NOT_FOUND", "Source", sourceId)
  ELSE IF ~hasNode(g, targetId)
  THEN Thrown("NODE_NOT_FOUND", "Target", targetId)
  ELSE LET st == SearchLoop(g, targetId, options, SearchStart(sourceId))
       IN  Returned(st.found, st)

\* mutant: the sourceId === targetId shortcut is taken before the endpoints are checked
findPath_shortcutFirst(g, sourceId, targetId, options) ==
  IF sourceId = targetId
  THEN Returned(<<sourceId>>, NoSearch)
  ELSE IF ~hasNode(g, sourceId)
  THEN Thrown("NODE_NOT_FOUND", "Source", sourceId)
  ELSE IF ~hasNode(g, targetId)
  THEN Thrown("NODE_NOT_FOUND", "Target", targetId)
  ELSE LET st == SearchLoop(g, targetId, options, SearchStart(sourceId))
       IN  Returned(st.found, st)

findPath(g, sourceId, targetId, options) ==
  IF ~hasNode(g, sourceId)
  THEN Thrown("NODE_NOT_FOUND", "Source", sourceId)
  ELSE IF ~hasNode(g, targetId)
  THEN Thrown("NODE_NOT_FOUND", "Target", targetId)
  ELSE IF sourceId = targetId
  THEN Returned(<<sourceId>>, NoSearch)
  ELSE LET st == SearchLoop(g, targetId, options, SearchStart(sourceId))
       IN  Returned(st.found, st)

(***************************************************************************)
(* WayfindingGraph mutations, as functions from a graph value to the new   *)
(* graph value and the outcome of the call.                                *)
(***************************************************************************)
Put(f, k, v) == [x \in DOMAIN f \cup {k} |-> IF x = k THEN v ELSE f[x]]

\* `if (coordinates)` holds and the value is not an array of length 2
BadCoordinates(coordinates) ==
  /\ coordinates.kind # "null"
  /\ (coordinates.kind # "array" \/ Len(coordinates.items) # 2)

\* the value of n / 2 in JS arithmetic: units + halves * 0.5
Halved(n) == [units |-> n \div 2, halves |-> n % 2]

RECURSIVE SumOfSizes(_, _)
\* reduce((sum, neighbors) => sum + neighbors.size, 0) over the entries of ids
SumOfSizes(adjacency, ids) ==
  IF ids = {} THEN 0
  ELSE LET id == CHOOSE x \in ids : TRUE
       IN  Len(adjacency[id]) + SumOfSizes(adjacency, ids \ {id})

\* walkingPaths and fixturePolygons are not touched by the methods of the graph
\* and are left out of the statistics
getStatistics(g) ==
  [totalNodes |-> Cardinality(g.nodes),
   nodeTypes |->
     [type \in {g.nodeTypes[n] : n \in DOMAIN g.nodeTypes} |->
        Cardinality({n \in DOMAIN g.nodeTypes : g.nodeTypes[n] = type})],
   totalEdges |-> Halved(SumOfSizes(g.adjacencyList, DOMAIN g.adjacencyList))]

\* mutant: the neighbor set of the node is always replaced by an empty one
addNode_clearsAdjacency(g, nodeId, type, coordinates) ==
  IF nodeId \in BlankIds
  THEN [graph |-> g, ret |-> Thrown("INVALID_NODE_ID", "", nodeId)]
  ELSE LET g1 == [g EXCEPT !.nodes = @ \cup {nodeId},
                           !.nodeTypes = Put(@, nodeId, type)]
       IN  IF BadCoordinates(coordinates)
           THEN [graph |-> g1, ret |-> Thrown("INVALID_COORDINATES", "", nodeId)]
           ELSE [graph |->
                   [g1 EXCEPT
                      !.nodeCoordinates =
                         IF coordinates.kind = "null" THEN @
                         ELSE Put(@, nodeId, coordinates.items),
                      !.adjacencyList = Put(@, nodeId, <<>>)],
                 ret |-> Ok]

addNode(g, nodeId, type, coordinates) ==
  IF nodeId \in BlankIds
  THEN [graph |-> g, ret |-> Thrown("INVALID_NODE_ID", "", nodeId)]
  ELSE LET g1 == [g EXCEPT !.nodes = @ \cup {nodeId},
                           !.nodeTypes = Put(@, nodeId, type)]
       IN  IF BadCoordinates(coordinates)
           THEN [graph |-> g1, ret |-> Thrown("INVALID_COORDINATES", "", nodeId)]
           ELSE [graph |->
                   [g1 EXCEPT
                      !.nodeCoordinates =
                         IF coordinates.kind = "null" THEN @
                         ELSE Put(@, nodeId, coordinates.items),
                      !.adjacencyList =
                         IF nodeId \in DOMAIN @ THEN @ ELSE Put(@, nodeId, <<>>)],
                 ret |-> Ok]

addEdge(g, sourceId, targetId, bidirectional) ==
  IF ~(sourceId \in g.nodes)
  THEN [graph |-> g, ret |-> Thrown("NODE_NOT_FOUND", "Source", sourceId)]
  ELSE IF ~(targetId \in g.nodes)
  THEN [graph |-> g, ret |-> Thrown("NODE_NOT_FOUND", "Target", targetId)]
  ELSE IF sourceId \notin DOMAIN g.adjacencyList
  THEN \* adjacencyList.get(sourceId) is undefined: .add throws a TypeError
       [graph |-> g, ret |-> Thrown("TypeError", "Source", sourceId)]
  ELSE LET g1 == [g EXCEPT !.adjacencyList[sourceId] = SetAdd(@, targetId)]
       IN  IF ~bidirectional
           THEN [graph |-> g1, ret |-> Ok]
           ELSE IF targetId \notin DOMAIN g1.adjacencyList
           THEN [graph |-> g1, ret |-> Thrown("TypeError", "Target", targetId)]
           ELSE [graph |-> [g1 EXCEPT !.adjacencyList[targetId] = SetAdd(@, sourceId)],
                 ret |-> Ok]

(***************************************************************************)
(* Pathfinder.getPathDetails.  The argument is null, a value that is not   *)
(* an array, or an array of ids: [kind, items].                            *)
(***************************************************************************)
NullPath == [kind |-> "null", items |-> <<>>]

ScalarPath == [kind |-> "scalar", items |-> <<>>]

ArrayPath(items) == [kind |-> "array", items |-> items]

NoDetails == [status |-> "null"]

Details(g, path, counted) ==
  [status |-> "details",
   path |-> path,
   length |-> Len(path),
   nodes |-> [i \in 1..Len(path) |->
                [id |-> path[i], type |-> getNodeType(g, path[i]),
                 coordinates |-> getNodeCoordinates(g, path[i])]],
   summary |->
     [start |-> [id |-> path[1], type |-> getNodeType(g, path[1])],
      end |-> [id |-> path[Len(path)], type |-> getNodeType(g, path[Len(path)])],
      waypointsUsed |->
        Cardinality({i \in counted :
                       getNodeType(g, path[i]) = NODE_TYPES.WAYPOINT})]]

\* mutant: the endpoints are not counted in waypointsUsed
getPathDetails_interiorOnly(g, path) ==
  IF path.kind # "array" \/ Len(path.items) = 0
  THEN NoDetails
  ELSE Details(g, path.items, 2..(Len(path.items) - 1))

getPathDetails(g, path) ==
  IF path.kind # "array" \/ Len(path.items) = 0
  THEN NoDetails
  ELSE Details(g, path.items, 1..Len(path.items))

(***************************************************************************)
(* Pathfinder.findMultiplePaths.  acc is [paths, visited, ret]: the paths  *)
(* found so far, the interior nodes excluded so far and, if a findPath     *)
(* call threw, what it threw.                                              *)
(***************************************************************************)
Interior(path) == {path[j] : j \in 2..(Len(path) - 1)}

RECURSIVE MultiplePathsLoop_noExclusion(_, _, _, _, _, _, _)
\* mutant: the interior nodes of a found path are not excluded
MultiplePathsLoop_noExclusion(g, sourceId, targetId, maxPaths, options, i, acc) ==
  IF ~(i < maxPaths)
  THEN acc
  ELSE LET r == findPath(g, sourceId, targetId,
                         [options EXCEPT !.excludeNodes = acc.visited])
       IN  IF r.status = "throw"
           THEN [acc EXCEPT !.ret = r]
           ELSE IF r.status = "null"
           THEN acc
           ELSE MultiplePathsLoop_noExclusion(g, sourceId, targetId, maxPaths, options, i + 1,
                  [acc EXCEPT !.paths = Append(@, r.path),
                              !.visited = @])

RECURSIVE MultiplePathsLoop_inclusive(_, _, _, _, _, _, _)
\* mutant: the loop runs while i <= maxPaths
MultiplePathsLoop_inclusive(g, sourceId, targetId, maxPaths, options, i, acc) ==
  IF ~(i <= maxPaths)
  THEN acc
  ELSE LET r == findPath(g, sourceId, targetId,
                         [options EXCEPT !.excludeNodes = acc.visited])
       IN  IF r.status = "throw"
           THEN [acc EXCEPT !.ret = r]
           ELSE IF r.status = "null"
           THEN acc
           ELSE MultiplePathsLoop_inclusive(g, sourceId, targetId, maxPaths, options, i + 1,
                  [acc EXCEPT !.paths = Append(@, r.path),
                              !.visited = @ \cup Interior(r.path)])

RECURSIVE MultiplePathsLoop_stopsOnRepeat(_, _, _, _, _, _, _)
\* mutant: the loop stops when a path is found again
MultiplePathsLoop_stopsOnRepeat(g, sourceId, targetId, maxPaths, options, i, acc) ==
  IF ~(i < maxPaths)
  THEN acc
  ELSE LET r == findPath(g, sourceId, targetId,
                         [options EXCEPT !.excludeNodes = acc.visited])
       IN  IF r.status = "throw"
           THEN [acc EXCEPT !.ret = r]
           ELSE IF r.status = "null" \/ r.path \in Range(acc.paths)
           THEN acc
           ELSE MultiplePathsLoop_stopsOnRepeat(g, sourceId, targetId, maxPaths, options, i + 1,
                  [acc EXCEPT !.paths = Append(@, r.path),
                              !.visited = @ \cup Interior(r.path)])

RECURSIVE MultiplePathsLoop_keepsExclusions(_, _, _, _, _, _, _)
\* mutant: the excludeNodes of the caller are added to the set of the loop
MultiplePathsLoop_keepsExclusions(g, sourceId, targetId, maxPaths, options, i, acc) ==
  IF ~(i < maxPaths)
  THEN acc
  ELSE LET r == findPath(g, sourceId, targetId,
                         [options EXCEPT !.excludeNodes = @ \cup acc.visited])
       IN  IF r.status = "throw"
           THEN [acc EXCEPT !.ret = r]
           ELSE IF r.status = "null"
           THEN acc
           ELSE MultiplePathsLoop_keepsExclusions(g, sourceId, targetId, maxPaths,
                  options, i + 1,
                  [acc EXCEPT !.paths = Append(@, r.path),
                              !.visited = @ \cup Interior(r.path)])

RECURSIVE MultiplePathsLoop(_, _, _, _, _, _, _)
MultiplePathsLoop(g, sourceId, targetId, maxPaths, options, i, acc) ==
  IF ~(i < maxPaths)
  THEN acc
  ELSE LET r == findPath(g, sourceId, targetId,
                         [options EXCEPT !.excludeNodes = acc.visited])
       IN  IF r.status = "throw"
           THEN [acc EXCEPT !.ret = r]
           ELSE IF r.status = "null"
           THEN acc
           ELSE MultiplePathsLoop(g, sourceId, targetId, maxPaths, options, i + 1,
                  [acc EXCEPT !.paths = Append(@, r.path),
                              !.visited = @ \cup Interior(r.path)])

findMultiplePaths(g, sourceId, targetId, maxPaths, options) ==
  MultiplePathsLoop(g, sourceId, targetId, maxPaths, options, 0,
    [paths |-> <<>>, visited |-> {}, ret |-> Ok])

(***************************************************************************)
(* The state machine.  call is the last call made and ret what it          *)
(* returned or threw.                                                      *)
(***************************************************************************)
New == [op |-> "new"]

SetGraph(g) ==
  /\ nodes' = g.nodes
  /\ adjacencyList' = g.adjacencyList
  /\ nodeTypes' = g.nodeTypes
  /\ nodeCoordinates' = g.nodeCoordinates

AddNode(nodeId, type, coordinates) ==
  LET r == addNode(Graph, nodeId, type, coordinates)
  IN  /\ SetGraph(r.graph)
      /\ call' = [op |-> "addNode", nodeId |-> nodeId, type |-> type,
                  coordinates |-> coordinates]
      /\ ret' = r.ret

AddEdge(sourceId, targetId, bidirectional) ==
  LET r == addEdge(Graph, sourceId, targetId, bidirectional)
  IN  /\ SetGraph(r.graph)
      /\ call' = [op |-> "addEdge", sourceId |-> sourceId, targetId |-> targetId,
                  bidirectional |-> bidirectional]
      /\ ret' = r.ret

FindPath(sourceId, targetId, options) ==
  /\ call' = [op |-> "findPath", sourceId |-> sourceId, targetId |-> targetId,
              options |-> options]
  /\ ret' = findPath(Graph, sourceId, targetId, options)
  /\ UNCHANGED <<nodes, adjacencyList, nodeTypes, nodeCoordinates>>

FindMultiplePaths(sourceId, targetId, maxPaths, options) ==
  LET r == findMultiplePaths(Graph, sourceId, targetId, maxPaths, options)
  IN  /\ call' = [op |-> "findMultiplePaths", sourceId |-> sourceId,
                  targetId |-> targetId, maxPaths |-> maxPaths, options |-> options]
      /\ ret' = [status |-> IF r.ret.status = "throw" THEN "throw" ELSE "paths",
                 code |-> r.ret.code, side |-> r.ret.side, id |-> r.ret.id,
                 paths |-> IF r.ret.status = "throw" THEN <<>> ELSE r.paths]
      /\ UNCHANGED <<nodes, adjacencyList, nodeTypes, nodeCoordinates>>

GetPathDetails(path) ==
  /\ call' = [op |-> "getPathDetails", path |-> path]
  /\ ret' = getPathDetails(Graph, path)
  /\ UNCHANGED <<nodes, adjacencyList, nodeTypes, nodeCoordinates>>

GetStatistics ==
  /\ call' = [op |-> "getStatistics"]
  /\ ret' = [status |-> "value", value |-> getStatistics(Graph)]
  /\ UNCHANGED <<nodes, adjacencyList, nodeTypes, nodeCoordinates>>

\* a direct call of the routing predicate
CanVisitNeighbor(currentType, neighborType, allowDirectFixtureConnections) ==
  /\ call' = [op |-> "_canVisitNeighbor", currentType |-> currentType,
              neighborType |-> neighborType,
              allowDirectFixtureConnections |-> allowDirectFixtureConnections]
  /\ ret' = [status |-> "value",
             value |-> _canVisitNeighbor(currentType, neighborType,
                                         allowDirectFixtureConnections)]
  /\ UNCHANGED <<nodes, adjacencyList, nodeTypes, nodeCoordinates>>

(***************************************************************************)
(* Inputs of the calls.  The graph is built as the loader and the tests of *)
(* findPath build it: addNode without coordinates, addEdge with the        *)
(* default bidirectional = true between two different ids.  Node ids are   *)
(* opaque and the graphs built are closed under renaming them, so findPath *)
(* is called with source n1 and target n1 or n2.                           *)
(***************************************************************************)
DepthArgs == (0..MaxDepthArg) \cup {DefaultMaxDepth}

ExcludeArgs == {X \in SUBSET NodeIds : Cardinality(X) <= MaxExclude}

OptionArgs ==
  {Options(a, d, X) : a \in BOOLEAN, d \in DepthArgs, X \in ExcludeArgs}

SourceArgs == {"n1"}

TargetArgs == {"n1", "n2"}

(***************************************************************************)
(* Spec: the graph is built from the new graph and then queried.  findPath *)
(* keeps nothing between calls and leaves the graph alone, so the calls    *)
(* that follow a findPath call reach no state that is not reached from the *)
(* graph as built: they are left out.                                      *)
(***************************************************************************)
Init ==
  /\ nodes = {}
  /\ adjacencyList = << >>
  /\ nodeTypes = << >>
  /\ nodeCoordinates = << >>
  /\ call = New
  /\ ret = Ok

Building == call.op \notin {"findPath", "findMultiplePaths"}

Next ==
  \/ \E nodeId \in NodeIds, type \in TypeTags :
       Building /\ AddNode(nodeId, type, NullCoordinates)
  \/ \E sourceId \in NodeIds, targetId \in NodeIds :
       Building /\ sourceId # targetId /\ AddEdge(sourceId, targetId, TRUE)
  \/ \E sourceId \in SourceArgs, targetId \in TargetArgs, options \in OptionArgs :
       Building /\ FindPath(sourceId, targetId, options)

Spec == Init /\ [][Next]_vars

(***************************************************************************)
(* SpecPredicate: the routing predicate called on its own, with every type *)
(* tag, the empty string and a tag in the wrong case.                      *)
(***************************************************************************)
PredicateArgs == TypeTags \cup {"", "WAYPOINT"}

NextPredicate ==
  \E currentType \in PredicateArgs, neighborType \in PredicateArgs,
     allowDirectFixtureConnections \in BOOLEAN :
    CanVisitNeighbor(currentType, neighborType, allowDirectFixtureConnections)

SpecPredicate == Init /\ [][NextPredicate]_vars

(***************************************************************************)
(* SpecPaths: graphs of up to four nodes, built with bidirectional edges   *)
(* only, on which findPath and findMultiplePaths are called from n1 to n2  *)
(* without excludeNodes.                                                   *)
(***************************************************************************)
PathIds == NodeIds \cup {"n4"}

PathTypes == {NODE_TYPES.WAYPOINT, NODE_TYPES.DI_BOX}

PathsArgs == (0..MaxPathsArg) \cup {DefaultMaxPaths}

PathOptionArgs == {Options(a, d, {}) : a \in BOOLEAN, d \in DepthArgs}

MultiplePathsOptionArgs == {Options(a, DefaultMaxDepth, {}) : a \in BOOLEAN}

\* the graph under test is set up before the Pathfinder is used: call and ret
\* record the calls made on the Pathfinder
BuildNode(nodeId, type) ==
  /\ SetGraph(addNode(Graph, nodeId, type, NullCoordinates).graph)
  /\ UNCHANGED <<call, ret>>

BuildEdge(sourceId, targetId) ==
  /\ SetGraph(addEdge(Graph, sourceId, targetId, TRUE).graph)
  /\ UNCHANGED <<call, ret>>

NextPaths ==
  \/ \E nodeId \in PathIds, type \in PathTypes :
       Building /\ BuildNode(nodeId, type)
  \/ \E sourceId \in PathIds, targetId \in PathIds :
       Building /\ sourceId # targetId /\ BuildEdge(sourceId, targetId)
  \/ \E options \in PathOptionArgs : Building /\ FindPath("n1", "n2", options)
  \/ \E maxPaths \in PathsArgs, options \in MultiplePathsOptionArgs :
       Building /\ FindMultiplePaths("n1", "n2", maxPaths, options)

SpecPaths == Init /\ [][NextPaths]_vars

(***************************************************************************)
(* SpecSearch: graphs of up to three nodes typed waypoint, di_box or       *)
(* unknown, on which findPath and findMultiplePaths are called with every  *)
(* combination of the options, excludeNodes included.                      *)
(***************************************************************************)
SearchTypes == {NODE_TYPES.WAYPOINT, NODE_TYPES.DI_BOX, NODE_TYPES.UNKNOWN}

NextSearchCalls ==
  \/ \E nodeId \in NodeIds, type \in SearchTypes :
       Building /\ BuildNode(nodeId, type)
  \/ \E sourceId \in NodeIds, targetId \in NodeIds :
       Building /\ sourceId # targetId /\ BuildEdge(sourceId, targetId)
  \/ \E sourceId \in SourceArgs, targetId \in TargetArgs, options \in OptionArgs :
       Building /\ FindPath(sourceId, targetId, options)
  \/ \E maxPaths \in PathsArgs, options \in OptionArgs :
       Building /\ FindMultiplePaths("n1", "n2", maxPaths, options)

SpecSearch == Init /\ [][NextSearchCalls]_vars

(***************************************************************************)
(* SpecGraph: the WayfindingGraph on its own.  addNode is called with      *)
(* valid and blank ids, with and without coordinates, and with coordinates *)
(* that are not an array of two items; addEdge with existing and missing   *)
(* ids, the same id twice, in one or both directions.                      *)
(***************************************************************************)
GraphIds == {"n1", "n2"}

GraphTypes == {NODE_TYPES.WAYPOINT, NODE_TYPES.UNKNOWN}

CoordinateArgs ==
  {NullCoordinates, ArrayCoordinates(<<1, 2>>), ArrayCoordinates(<<3, 4>>),
   ArrayCoordinates(<<1>>), ScalarCoordinates}

NextGraph ==
  \/ \E nodeId \in GraphIds \cup BlankIds, type \in GraphTypes,
        coordinates \in CoordinateArgs :
       AddNode(nodeId, type, coordinates)
  \/ \E sourceId \in GraphIds, targetId \in GraphIds, bidirectional \in BOOLEAN :
       AddEdge(sourceId, targetId, bidirectional)
  \/ GetStatistics

SpecGraph == Init /\ [][NextGraph]_vars

(***************************************************************************)
(* SpecCalls: a graph of up to two nodes, with and without coordinates,    *)
(* on which the Pathfinder is called again and again while the graph is    *)
(* still being changed.                                                    *)
(***************************************************************************)
MaxPathLen == 3

CallCoordinateArgs == {NullCoordinates, ArrayCoordinates(<<1, 2>>)}

RECURSIVE IdSeqs(_, _)
IdSeqs(ids, n) ==
  IF n = 0 THEN {<<>>}
  ELSE IdSeqs(ids, n - 1) \cup
       {Append(p, id) : p \in IdSeqs(ids, n - 1), id \in ids}

\* arrays of ids of the graph and of one id that is never added
PathArgs ==
  {NullPath, ScalarPath} \cup
  {ArrayPath(p) : p \in IdSeqs(GraphIds \cup {"ghost"}, MaxPathLen)}

NextCalls ==
  \/ \E nodeId \in GraphIds, type \in PathTypes, coordinates \in CallCoordinateArgs :
       AddNode(nodeId, type, coordinates)
  \/ \E sourceId \in GraphIds, targetId \in GraphIds :
       sourceId # targetId /\ AddEdge(sourceId, targetId, TRUE)
  \/ \E options \in OptionArgs : FindPath("n1", "n2", options)
  \/ \E maxPaths \in PathsArgs, options \in MultiplePathsOptionArgs :
       FindMultiplePaths("n1", "n2", maxPaths, options)
  \/ \E path \in PathArgs : GetPathDetails(path)

SpecCalls == Init /\ [][NextCalls]_vars

(***************************************************************************)
(* The data loader (data/loader.js).  fetch is the environment: the        *)
(* outcomes of the next calls of fetch in order (once) and the outcome of  *)
(* every call after them (then), as a mock with mockResolvedValueOnce and  *)
(* mockResolvedValue.  An outcome is a rejection of fetch, an abort by the *)
(* timeout, a response that is not ok, a response whose json() rejects, or *)
(* a response with the given JSON data.  A url argument is a string or     *)
(* null: [kind, text].  Every result carries log, the fetch calls and the  *)
(* delays in the order they happened, and fetch, the outcomes left.        *)
(***************************************************************************)
MaxRetryAttempts == 2

MaxOnce == 2

MaxUrls == 2

DefaultRetryAttempts == 3

PointFeature(alt_name, wayfinding_type, coordinates) ==
  [geometry |-> "Point", alt_name |-> alt_name, wayfinding_type |-> wayfinding_type,
   coordinates |-> coordinates]

FeatureCollection(features) == [type |-> "FeatureCollection", features |-> features]

\* the files of the model: a waypoint, a fixture point, a point whose
\* coordinates are not a pair, and JSON that is not a FeatureCollection
WayfindingFile ==
  FeatureCollection(<<PointFeature("wp_001", "walking_grid_point",
                                   ArrayCoordinates(<<1, 2>>))>>)

FixtureFile ==
  FeatureCollection(<<PointFeature("di_27_18_top", "", ArrayCoordinates(<<3, 4>>))>>)

BrokenFile ==
  FeatureCollection(<<PointFeature("wp_002", "walking_grid_point",
                                   ArrayCoordinates(<<1>>))>>)

NotGeoJSON == [type |-> "Feature", features |-> <<>>]

_isValidGeoJSON(data) == data.type = "FeatureCollection"

NoData == [type |-> "", features |-> <<>>]

Rejects == [kind |-> "rejects", data |-> NoData]

Aborts == [kind |-> "aborts", data |-> NoData]

NotOk == [kind |-> "notOk", data |-> NoData]

BadJson == [kind |-> "badJson", data |-> NoData]

Responds(data) == [kind |-> "json", data |-> data]

StringUrl(text) == [kind |-> "string", text |-> text]

NullUrl == [kind |-> "null", text |-> ""]

NoError == [name |-> "", code |-> "", cause |-> ""]

Error(name, code, cause) == [name |-> name, code |-> code, cause |-> cause]

DataLoadingError(code, cause) == Error("DataLoadingError", code, cause)

\* what an error is called when it is the cause of another
CauseOf(error) == IF error.code # "" THEN error.code ELSE error.name

\* the call of fetch: the outcome and the outcomes left
NextOutcome(fetch) == IF fetch.once # <<>> THEN Head(fetch.once) ELSE fetch.then

AfterFetch(fetch) == IF fetch.once # <<>> THEN [fetch EXCEPT !.once = Tail(@)] ELSE fetch

\* the error caught by the catch block of an attempt (lines 60-74 and 78-87)
AttemptError(outcome) ==
  IF outcome.kind = "rejects" THEN Error("Error", "", "")
  ELSE IF outcome.kind = "aborts" THEN DataLoadingError("TIMEOUT", "AbortError")
  ELSE IF outcome.kind = "notOk" THEN DataLoadingError("HTTP_ERROR", "")
  ELSE IF outcome.kind = "badJson" THEN Error("SyntaxError", "", "")
  ELSE DataLoadingError("INVALID_GEOJSON", "")

AttemptSucceeds(outcome) == outcome.kind = "json" /\ _isValidGeoJSON(outcome.data)

Resolved(value, log, fetch) ==
  [status |-> "resolved", value |-> value, error |-> NoError, log |-> log,
   fetch |-> fetch]

Rejected(error, log, fetch) ==
  [status |-> "rejected", value |-> NoData, error |-> error, log |-> log,
   fetch |-> fetch]

RECURSIVE AttemptLoop(_, _, _, _, _)
\* for (let attempt = 1; attempt <= retryAttempts; attempt++) and the throw after it
AttemptLoop(options, attempt, lastError, log, fetch) ==
  IF ~(attempt <= options.retryAttempts)
  THEN IF lastError = NoError
       THEN \* lastError is undefined: lastError.message throws a TypeError
            Rejected(Error("TypeError", "", ""), log, fetch)
       ELSE Rejected(DataLoadingError("MAX_RETRIES_EXCEEDED", CauseOf(lastError)),
                     log, fetch)
  ELSE LET outcome == NextOutcome(fetch)
           fetched == Append(log, "fetch")
       IN  IF AttemptSucceeds(outcome)
           THEN Resolved(outcome.data, fetched, AfterFetch(fetch))
           ELSE AttemptLoop(options, attempt + 1, AttemptError(outcome),
                            IF attempt < options.retryAttempts
                            THEN Append(fetched, "delay") ELSE fetched,
                            AfterFetch(fetch))

loadGeoJSON(options, url, log, fetch) ==
  IF url.kind # "string" \/ url.text = ""
  THEN Rejected(DataLoadingError("INVALID_URL", ""), log, fetch)
  ELSE AttemptLoop(options, 1, NoError, log, fetch)

\* an urls argument is an array of urls or a value that is not an array
ArrayUrls(items) == [kind |-> "array", items |-> items]

ScalarUrls == [kind |-> "scalar", items |-> <<>>]

RECURSIVE MultipleLoop(_, _, _, _)
\* for (let i = 0; i < urls.length; i++): acc is [results, errors, log, fetch]
MultipleLoop(options, urls, i, acc) ==
  IF ~(i <= Len(urls))
  THEN acc
  ELSE LET r == loadGeoJSON(options, urls[i], acc.log, acc.fetch)
       IN  MultipleLoop(options, urls, i + 1,
             IF r.status = "resolved"
             THEN [results |-> Append(acc.results, r.value), errors |-> acc.errors,
                   log |-> r.log, fetch |-> r.fetch]
             ELSE [results |-> acc.results, errors |-> Append(acc.errors, i),
                   log |-> r.log, fetch |-> r.fetch])

\* the result also carries errors, the positions of the urls that failed
Multiple(status, value, error, acc) ==
  [status |-> status, value |-> value, error |-> error, errors |-> acc.errors,
   log |-> acc.log, fetch |-> acc.fetch]

loadMultipleGeoJSON(options, urls, log, fetch) ==
  IF urls.kind # "array"
  THEN Multiple("rejected", <<>>, DataLoadingError("INVALID_URLS", ""),
                [errors |-> <<>>, log |-> log, fetch |-> fetch])
  ELSE LET acc == MultipleLoop(options, urls.items, 1,
                    [results |-> <<>>, errors |-> <<>>, log |-> log, fetch |-> fetch])
       IN  IF Len(acc.results) = 0 /\ Len(acc.errors) > 0
           THEN Multiple("rejected", <<>>, DataLoadingError("ALL_FILES_FAILED", ""), acc)
           ELSE Multiple("resolved", acc.results, NoError, acc)

(***************************************************************************)
(* GraphBuilder.buildGraph for files of Point features: the points of the  *)
(* main data, then the features of each fixture file.  The files of the    *)
(* model have no LineString and no Polygon features.                       *)
(***************************************************************************)
NewGraph ==
  [nodes |-> {}, adjacencyList |-> << >>, nodeTypes |-> << >>,
   nodeCoordinates |-> << >>]

\* determineNodeType on the ids of the files of the model
determineNodeType(nodeId) ==
  IF nodeId \in {"wp_001", "wp_002"} THEN NODE_TYPES.WAYPOINT
  ELSE IF nodeId \in {"di_27_18_top"} THEN NODE_TYPES.DI_BOX
  ELSE NODE_TYPES.UNKNOWN

\* one feature of _processPoints
ProcessPoint(feature, built) ==
  IF built.ret.status = "throw" \/ feature.geometry # "Point" \/ feature.alt_name = ""
  THEN built
  ELSE addNode(built.graph, feature.alt_name,
               IF feature.wayfinding_type = "walking_grid_point"
               THEN NODE_TYPES.WAYPOINT
               ELSE determineNodeType(feature.alt_name),
               feature.coordinates)

\* one feature of _processFixtureData
ProcessFixtureFeature(feature, built) ==
  IF built.ret.status = "throw" \/ feature.geometry # "Point" \/ feature.alt_name = ""
  THEN built
  ELSE IF hasNode(built.graph, feature.alt_name)
  THEN [built EXCEPT !.graph.nodeCoordinates =
                        Put(@, feature.alt_name, feature.coordinates.items)]
  ELSE addNode(built.graph, feature.alt_name, determineNodeType(feature.alt_name),
               feature.coordinates)

RECURSIVE _processPoints(_, _, _)
_processPoints(features, i, built) ==
  IF i > Len(features) THEN built
  ELSE _processPoints(features, i + 1, ProcessPoint(features[i], built))

RECURSIVE _processFixtureData(_, _, _)
_processFixtureData(features, i, built) ==
  IF i > Len(features) THEN built
  ELSE _processFixtureData(features, i + 1, ProcessFixtureFeature(features[i], built))

RECURSIVE ProcessFixtureFiles(_, _, _)
ProcessFixtureFiles(fixtureData, i, built) ==
  IF i > Len(fixtureData) THEN built
  ELSE ProcessFixtureFiles(fixtureData, i + 1,
         _processFixtureData(fixtureData[i].features, 1, built))

\* [graph, ret]: ret.status is "throw" when a pass threw (GRAPH_BUILDING_ERROR)
buildGraph(geojsonData, fixtureData) ==
  ProcessFixtureFiles(fixtureData, 1,
    _processPoints(geojsonData.features, 1, [graph |-> NewGraph, ret |-> Ok]))

\* the result of loadAndBuildGraph: the graph, and main and fixtures, what
\* became of the two loads ("" for a load that was not made)
Built(status, graph, error, main, fixtures, last) ==
  [status |-> status, graph |-> graph, error |-> error, main |-> main,
   fixtures |-> fixtures, log |-> last.log, fetch |-> last.fetch]

loadAndBuildGraph(options, wayfindingUrl, fixtureUrls, fetch) ==
  LET wayfindingData == loadGeoJSON(options, wayfindingUrl, <<>>, fetch)
      fixtureData == loadMultipleGeoJSON(options, fixtureUrls, wayfindingData.log,
                                         wayfindingData.fetch)
      loaded == Len(fixtureUrls.items) > 0
      last == IF loaded THEN fixtureData ELSE wayfindingData
      built == buildGraph(wayfindingData.value, IF loaded THEN fixtureData.value ELSE <<>>)
  IN  IF wayfindingData.status = "rejected"
      THEN Built("rejected", NewGraph,
                 DataLoadingError("LOAD_AND_BUILD_ERROR", CauseOf(wayfindingData.error)),
                 "rejected", "", wayfindingData)
      ELSE IF loaded /\ fixtureData.status = "rejected"
      THEN Built("rejected", NewGraph,
                 DataLoadingError("LOAD_AND_BUILD_ERROR", CauseOf(fixtureData.error)),
                 "resolved", "rejected", fixtureData)
      ELSE IF built.ret.status = "throw"
      THEN Built("rejected", NewGraph,
                 DataLoadingError("LOAD_AND_BUILD_ERROR", "GRAPH_BUILDING_ERROR"),
                 "resolved", IF loaded THEN "resolved" ELSE "", last)
      ELSE Built("resolved", built.graph, NoError,
                 "resolved", IF loaded THEN "resolved" ELSE "", last)

\* new GeoJSONLoader(options).loadGeoJSON(url)
LoadGeoJSON(options, url, fetch) ==
  /\ call' = [op |-> "loadGeoJSON", options |-> options, url |-> url, fetch |-> fetch]
  /\ ret' = loadGeoJSON(options, url, <<>>, fetch)
  /\ UNCHANGED <<nodes, adjacencyList, nodeTypes, nodeCoordinates>>

\* new GeoJSONLoader(options).loadMultipleGeoJSON(urls)
LoadMultipleGeoJSON(options, urls, fetch) ==
  /\ call' = [op |-> "loadMultipleGeoJSON", options |-> options, urls |-> urls,
              fetch |-> fetch]
  /\ ret' = loadMultipleGeoJSON(options, urls, <<>>, fetch)
  /\ UNCHANGED <<nodes, adjacencyList, nodeTypes, nodeCoordinates>>

\* new WayfindingDataManager({loader: options}).loadAndBuildGraph(url, fixtureUrls)
LoadAndBuildGraph(options, wayfindingUrl, fixtureUrls, fetch) ==
  /\ call' = [op |-> "loadAndBuildGraph", options |-> options,
              wayfindingUrl |-> wayfindingUrl, fixtureUrls |-> fixtureUrls,
              fetch |-> fetch]
  /\ ret' = loadAndBuildGraph(options, wayfindingUrl, fixtureUrls, fetch)
  /\ UNCHANGED <<nodes, adjacencyList, nodeTypes, nodeCoordinates>>

(***************************************************************************)
(* SpecLoader: the three loading calls, with every retryAttempts from 0 to *)
(* MaxRetryAttempts and the default, and every fetch environment of up to  *)
(* MaxOnce outcomes followed by a fetch that always rejects or always      *)
(* responds with the wayfinding file.  Each call is made on a new loader.  *)
(***************************************************************************)
LoaderOptionArgs ==
  {[retryAttempts |-> n] : n \in (0..MaxRetryAttempts) \cup {DefaultRetryAttempts}}

OutcomeArgs ==
  {Rejects, Aborts, NotOk, BadJson, Responds(NotGeoJSON), Responds(WayfindingFile),
   Responds(FixtureFile), Responds(BrokenFile)}

RECURSIVE SeqsUpTo(_, _)
SeqsUpTo(S, n) ==
  IF n = 0 THEN {<<>>}
  ELSE LET shorter == SeqsUpTo(S, n - 1)
       IN  shorter \cup {Append(q, x) : q \in shorter, x \in S}

FetchArgs ==
  {[once |-> once, then |-> then] :
     once \in SeqsUpTo(OutcomeArgs, MaxOnce),
     then \in {Rejects, Responds(WayfindingFile)}}

UrlArgs == {StringUrl("test.geojson"), StringUrl(""), NullUrl}

UrlsArgs ==
  {ScalarUrls} \cup
  {ArrayUrls(items) : items \in SeqsUpTo({StringUrl("file.geojson"), NullUrl}, MaxUrls)}

FixtureUrlsArgs ==
  {ArrayUrls(items) : items \in SeqsUpTo({StringUrl("fixture.geojson")}, MaxUrls)}

\* a loader keeps nothing between calls: the calls that follow a call reach no
\* state that is not reached from the start
NoCallYet == call.op = "new"

NextLoader ==
  \/ /\ NoCallYet
     /\ \E options \in LoaderOptionArgs, url \in UrlArgs, fetch \in FetchArgs :
          LoadGeoJSON(options, url, fetch)
  \/ /\ NoCallYet
     /\ \E options \in LoaderOptionArgs, urls \in UrlsArgs, fetch \in FetchArgs :
          LoadMultipleGeoJSON(options, urls, fetch)
  \/ /\ NoCallYet
     /\ \E options \in LoaderOptionArgs, fixtureUrls \in FixtureUrlsArgs,
           fetch \in FetchArgs :
          LoadAndBuildGraph(options, StringUrl("wayfinding.geojson"), fixtureUrls,
                            fetch)

SpecLoader == Init /\ [][NextLoader]_vars

(***************************************************************************)
(* Vocabulary of the properties, stated without the Pathfinder's code.     *)
(***************************************************************************)
FixtureTags == {"di_box", "cabinet", "fossil"}

TypeOf(nodeId) == getNodeType(Graph, nodeId)

IsFixture(nodeId) == TypeOf(nodeId) \in FixtureTags

IsWaypoint(nodeId) == TypeOf(nodeId) = "waypoint"

IsUnknown(nodeId) == TypeOf(nodeId) = "unknown"

FindPathCalled == call.op = "findPath"

PathReturned == FindPathCalled /\ ret.status = "path"

NullReturned == FindPathCalled /\ ret.status = "null"

HasEdge(u, v) == u \in DOMAIN adjacencyList /\ v \in Range(adjacencyList[u])

C2_WaypointBetweenFixtures ==
  (/\ PathReturned
   /\ call.sourceId # call.targetId
   /\ IsFixture(call.sourceId) /\ IsFixture(call.targetId))
  => \E i \in 2..(Len(ret.path) - 1) : IsWaypoint(ret.path[i])

\* C4: a returned path starts at the source, ends at the target, repeats no
\* node, and each hop goes to a neighbor the routing predicate allows.
C4_WellFormedPath ==
  PathReturned =>
    /\ ret.path[1] = call.sourceId
    /\ ret.path[Len(ret.path)] = call.targetId
    /\ \A i, j \in 1..Len(ret.path) : i # j => ret.path[i] # ret.path[j]
    /\ \A i \in 1..(Len(ret.path) - 1) :
         /\ ret.path[i + 1] \in Range(getNeighbors(Graph, ret.path[i]))
         /\ _canVisitNeighbor(TypeOf(ret.path[i]), TypeOf(ret.path[i + 1]),
                              call.options.allowDirectFixtureConnections)

\* a path of three nodes was returned
C4_Witness == PathReturned /\ Len(ret.path) = 3

(***************************************************************************)
(* Walks: the decision table of the routing rule by kind of node, and the  *)
(* nodes at which a walk of k allowed hops from the source can end when    *)
(* every node after the source is outside excludeNodes.                    *)
(***************************************************************************)
Kind(tag) ==
  IF tag = "waypoint" THEN "W"
  ELSE IF tag \in FixtureTags THEN "F"
  ELSE IF tag = "unknown" THEN "U"
  ELSE "other"

RoutingTable(currentType, neighborType, flag) ==
  LET pair == <<Kind(currentType), Kind(neighborType)>>
  IN  CASE pair \in {<<"W", "W">>, <<"F", "W">>, <<"W", "F">>} -> TRUE
        [] pair = <<"F", "F">> -> FALSE
        [] "U" \in {pair[1], pair[2]} -> flag
        [] OTHER -> FALSE

AllowedHop(u, v) ==
  /\ HasEdge(u, v)
  /\ RoutingTable(TypeOf(u), TypeOf(v), call.options.allowDirectFixtureConnections)

RECURSIVE WalkEnds(_)
WalkEnds(k) ==
  IF k = 0 THEN {call.sourceId}
  ELSE {v \in nodes \ call.options.excludeNodes :
          \E u \in WalkEnds(k - 1) : AllowedHop(u, v)}

WalkExists == \E k \in 0..Cardinality(nodes) : call.targetId \in WalkEnds(k)

\* waypoints reachable from the source over k >= 1 edges through waypoints only
RECURSIVE WaypointEnds(_)
WaypointEnds(k) ==
  {w \in nodes \ call.options.excludeNodes :
     /\ IsWaypoint(w)
     /\ \E u \in (IF k = 1 THEN {call.sourceId} ELSE WaypointEnds(k - 1)) :
          HasEdge(u, w)}

WaypointRouteExists ==
  /\ call.targetId \notin call.options.excludeNodes
  /\ \E k \in 1..Cardinality(nodes) :
       \E w \in WaypointEnds(k) : HasEdge(w, call.targetId)

Searched ==
  /\ FindPathCalled
  /\ ret.status # "throw"
  /\ call.sourceId # call.targetId

\* the while loop ended with an empty queue
Exhausted == NullReturned /\ ret.search.queue = <<>>

\* C3: when findPath returns a path, no walk from the source to the target over
\* allowed hops that avoids excludeNodes has fewer nodes, whatever maxDepth is.
C3_FewestNodes ==
  PathReturned =>
    \A k \in 0..(Len(ret.path) - 2) : call.targetId \notin WalkEnds(k)

\* a three-node path was returned although the target is a neighbor of the source
C3_Witness ==
  /\ PathReturned
  /\ Len(ret.path) = 3
  /\ HasEdge(call.sourceId, call.targetId)
  /\ adjacencyList[call.sourceId][1] = call.targetId
  /\ call.options.maxDepth # DefaultMaxDepth

C8_NoneOnlyIfUnreachable ==
  Searched =>
    /\ Exhausted => ~WalkExists
    /\ ~WalkExists => NullReturned
    /\ (Exhausted /\ IsFixture(call.sourceId) /\ IsFixture(call.targetId))
         => ~WaypointRouteExists

\* the search between two connected nodes ran out of queue
C8_Witness ==
  /\ Searched
  /\ Exhausted
  /\ ret.search.iterations = 2
  /\ HasEdge(call.sourceId, call.targetId)
  /\ IsFixture(call.sourceId) /\ IsFixture(call.targetId)

\* C5: findPath returns the same result (the same path, or none) on the graph
\* with every edge between two fixture-typed nodes removed.
WithoutFixtureEdges(g) ==
  [g EXCEPT !.adjacencyList =
     [n \in DOMAIN @ |->
        SelectSeq(@[n],
          LAMBDA m : ~(getNodeType(g, n) \in FixtureTags
                       /\ getNodeType(g, m) \in FixtureTags))]]

SameResult(r1, r2) == r1.status = r2.status /\ r1.path = r2.path

NoUnknownNodes == \A n \in nodes : ~IsUnknown(n)

OtherFlag(options) ==
  [options EXCEPT !.allowDirectFixtureConnections = ~@]

Uncapped ==
  findPath(Graph, call.sourceId, call.targetId,
           [call.options EXCEPT !.maxDepth = Cardinality(nodes) + 1])

C9_MaxDepthCapsExpansions ==
  (FindPathCalled /\ ret.status # "throw") =>
    /\ ret.search.iterations <= call.options.maxDepth
    /\ IF Uncapped.search.iterations <= call.options.maxDepth
       THEN SameResult(ret, Uncapped)
       ELSE ret.status = "null"

\* the cap stopped a search that finds a path when it is not capped
C9_Witness ==
  /\ NullReturned
  /\ Uncapped.status = "path"
  /\ ret.search.iterations = call.options.maxDepth
  /\ call.options.maxDepth = 1

\* C10: findPath(x, x, options) on an existing node x returns <<x>> without
\* running the search, whatever the options.
C10_Reflexive ==
  (/\ FindPathCalled
   /\ call.sourceId = call.targetId
   /\ call.sourceId \in nodes)
  => /\ ret.status = "path"
     /\ ret.path = <<call.sourceId>>
     /\ ret.search = NoSearch

\* x is Unknown-typed, isolated and excluded, and maxDepth is 0
C10_Witness ==
  /\ FindPathCalled
  /\ call.sourceId = call.targetId
  /\ call.sourceId \in nodes
  /\ ret.path = <<call.sourceId>>
  /\ call.options.maxDepth = 0
  /\ call.sourceId \in call.options.excludeNodes
  /\ IsUnknown(call.sourceId)
  /\ getNeighbors(Graph, call.sourceId) = <<>>

\* C11: findPath throws NODE_NOT_FOUND exactly when the source or the target is
\* not in the node set; the error names the source (side and id) when the source
\* is missing, even if the target is missing too or equals the source, and the
\* target otherwise; none is returned only when both endpoints exist.
C11_NodeNotFound ==
  FindPathCalled =>
    /\ ret.status = "throw"
          <=> (call.sourceId \notin nodes \/ call.targetId \notin nodes)
    /\ call.sourceId \notin nodes =>
          /\ ret.code = "NODE_NOT_FOUND"
          /\ ret.side = "Source" /\ ret.id = call.sourceId
    /\ (call.sourceId \in nodes /\ call.targetId \notin nodes) =>
          /\ ret.code = "NODE_NOT_FOUND"
          /\ ret.side = "Target" /\ ret.id = call.targetId
    /\ ret.status = "null" => {call.sourceId, call.targetId} \subseteq nodes

\* findPath(x, x) was called on a graph that has other nodes but not x
C11_Witness ==
  /\ FindPathCalled
  /\ call.sourceId = call.targetId
  /\ call.sourceId \notin nodes
  /\ nodes # {}
  /\ ret.status = "throw" /\ ret.side = "Source"

(***************************************************************************)
(* Two nodes joined only by a direct edge: no walk over edges of the graph *)
(* leads from one to the other once the edges between them are left out.   *)
(***************************************************************************)
RECURSIVE Detour(_, _, _)
Detour(a, b, k) ==
  IF k = 0 THEN {a}
  ELSE Detour(a, b, k - 1) \cup
       {v \in nodes : \E u \in Detour(a, b, k - 1) :
                        HasEdge(u, v) /\ {u, v} # {a, b}}

JoinedOnlyDirectly(a, b) ==
  /\ HasEdge(a, b) /\ HasEdge(b, a)
  /\ b \notin Detour(a, b, Cardinality(nodes))

DefaultDepthNoExclusions ==
  call.options.maxDepth = DefaultMaxDepth /\ call.options.excludeNodes = {}

DirectFixturePair ==
  /\ FindPathCalled
  /\ call.sourceId # call.targetId
  /\ IsFixture(call.sourceId) /\ IsFixture(call.targetId)
  /\ JoinedOnlyDirectly(call.sourceId, call.targetId)
  /\ DefaultDepthNoExclusions

MultiplePathsCalled == call.op = "findMultiplePaths"

PathsReturned == MultiplePathsCalled /\ ret.status = "paths"

Between(path) == {path[k] : k \in 2..(Len(path) - 1)}

\* the interior nodes of the first i paths returned
ExcludedAfter(i) == UNION {Between(ret.paths[j]) : j \in 1..i}

NextSearch(i) ==
  findPath(Graph, call.sourceId, call.targetId,
           [call.options EXCEPT !.excludeNodes = ExcludedAfter(i)])

\* the call of findPath in the other direction, with the same options
Reverse == findPath(Graph, call.targetId, call.sourceId, call.options)

\* the search stopped at maxDepth with paths still queued
Cut(r) == r.status = "null" /\ r.search.queue # <<>>

\* C12 as stated: on a graph whose edges were all added bidirectionally,
\* findPath(a, b) returns a path iff findPath(b, a) does, and the two paths have
\* the same length.
C12_Symmetric ==
  (FindPathCalled /\ ret.status # "throw") =>
    /\ ret.status = "path" <=> Reverse.status = "path"
    /\ ret.status = "path" => Len(ret.path) = Len(Reverse.path)

\* C12 amended: the same, for two calls without excludeNodes of which neither
\* is stopped by maxDepth while paths are still queued.
C12_SymmetricUnlessCut ==
  (FindPathCalled /\ ret.status # "throw" /\ ~Cut(ret) /\ ~Cut(Reverse)) =>
    /\ ret.status = "path" <=> Reverse.status = "path"
    /\ ret.status = "path" => Len(ret.path) = Len(Reverse.path)

\* both directions return a three-node path, through different nodes, between a
\* fixture and a waypoint
C12_Witness ==
  /\ PathReturned
  /\ Len(ret.path) = 3
  /\ Reverse.status = "path"
  /\ Reverse.path[2] # ret.path[2]
  /\ IsFixture(call.sourceId) /\ IsWaypoint(call.targetId)

\* C13: no node other than the source and the target is an interior node of two
\* of the paths findMultiplePaths returns.
C13_InteriorDisjoint ==
  PathsReturned =>
    \A i, j \in 1..Len(ret.paths) :
      i # j => Between(ret.paths[i]) \cap Between(ret.paths[j]) = {}

\* two paths were returned, each with an interior node
C13_Witness ==
  /\ PathsReturned
  /\ Len(ret.paths) = 2
  /\ Between(ret.paths[1]) # {} /\ Between(ret.paths[2]) # {}

\* C14: findMultiplePaths returns at most maxPaths paths; the i-th is what findPath
\* returns when the interior nodes of the paths before it are excluded; when
\* fewer than maxPaths are returned, the next such search returns none; every
\* path starts at the source and ends at the target.
C14_PrefixOfSearches ==
  PathsReturned =>
    /\ Len(ret.paths) <= call.maxPaths
    /\ \A i \in 1..Len(ret.paths) :
         /\ NextSearch(i - 1).status = "path"
         /\ ret.paths[i] = NextSearch(i - 1).path
         /\ ret.paths[i][1] = call.sourceId
         /\ ret.paths[i][Len(ret.paths[i])] = call.targetId
    /\ Len(ret.paths) < call.maxPaths =>
         NextSearch(Len(ret.paths)).status = "null"

\* three paths were asked for, two different ones were found and the third search
\* found none
C14_Witness ==
  /\ PathsReturned
  /\ call.maxPaths = DefaultMaxPaths
  /\ Len(ret.paths) = 2
  /\ ret.paths[1] # ret.paths[2]
  /\ NextSearch(2).status = "null"

\* C15: when findPath(s, t) returns the direct path <<s, t>>, findMultiplePaths
\* returns maxPaths copies of it.
C15_DirectPathRepeated ==
  (PathsReturned /\ NextSearch(0).path = <<call.sourceId, call.targetId>>) =>
    ret.paths = [i \in 1..call.maxPaths |-> <<call.sourceId, call.targetId>>]

\* the direct path was returned three times although another route exists
C15_Witness ==
  /\ PathsReturned
  /\ call.maxPaths = DefaultMaxPaths
  /\ Len(ret.paths) = DefaultMaxPaths
  /\ ret.paths[DefaultMaxPaths] = <<call.sourceId, call.targetId>>
  /\ \E n \in nodes : HasEdge(call.sourceId, n) /\ HasEdge(n, call.targetId)

(***************************************************************************)
(* Vocabulary of the properties of the graph.                              *)
(***************************************************************************)
NeighborsOf(n) == IF n \in DOMAIN adjacencyList THEN Range(adjacencyList[n]) ELSE {}

\* the edges of the graph, an edge recorded in both directions counted once
DistinctEdges ==
  {{p[1], p[2]} : p \in {q \in nodes \X nodes : HasEdge(q[1], q[2])}}

\* C17: every id in a neighbor set is a key of the adjacency structure, after any
\* sequence of addNode and addEdge calls, successful or failing.
C17_EdgesReferenceKeys ==
  \A n \in DOMAIN adjacencyList :
    \A m \in Range(adjacencyList[n]) : m \in DOMAIN adjacencyList

\* C18: addEdge(s, t, bidirectional) either throws NODE_NOT_FOUND, when s or t is
\* not in the node set, and leaves the graph as it was, or returns after adding
\* t to the neighbors of s and, if bidirectional, s to the neighbors of t, and
\* nothing else; the same call again changes nothing.
C18_AddEdgeOutcomes ==
  [][call'.op = "addEdge" =>
       IF call'.sourceId \notin nodes \/ call'.targetId \notin nodes
       THEN /\ ret'.status = "throw"
            /\ ret'.code = "NODE_NOT_FOUND"
            /\ Graph' = Graph
       ELSE /\ ret'.status = "ok"
            /\ nodes' = nodes /\ nodeTypes' = nodeTypes
            /\ nodeCoordinates' = nodeCoordinates
            /\ DOMAIN adjacencyList' = DOMAIN adjacencyList
            /\ \A n \in nodes :
                 NeighborsOf(n)' =
                   NeighborsOf(n)
                   \cup (IF n = call'.sourceId THEN {call'.targetId} ELSE {})
                   \cup (IF call'.bidirectional /\ n = call'.targetId
                         THEN {call'.sourceId} ELSE {})
            /\ addEdge(Graph', call'.sourceId, call'.targetId,
                       call'.bidirectional).graph = Graph']_vars

\* C19 as stated: addNode on an id that is already in the node set stores the type
\* and the coordinates of the new call, and leaves the node set and every
\* neighbor set as they were.
C19_ReAddOverwrites ==
  [][(call'.op = "addNode" /\ call'.nodeId \in nodes /\ ret'.status = "ok") =>
       /\ nodeTypes'[call'.nodeId] = call'.type
       /\ IF call'.coordinates.kind = "null"
          THEN call'.nodeId \notin DOMAIN nodeCoordinates'
          ELSE nodeCoordinates'[call'.nodeId] = call'.coordinates.items
       /\ nodes' = nodes
       /\ \A n \in nodes : NeighborsOf(n)' = NeighborsOf(n)]_vars

\* C19 amended: addNode on an id that is already in the node set leaves the node
\* set and every neighbor set as they were, whether it returns or throws; when
\* it returns it has stored the type of the new call, and the coordinates of the
\* new call if it passed any: without coordinates the stored ones are kept.
C19_ReAddKeepsCoordinates ==
  [][(call'.op = "addNode" /\ call'.nodeId \in nodes) =>
       /\ nodes' = nodes
       /\ \A n \in nodes : NeighborsOf(n)' = NeighborsOf(n)
       /\ ret'.status = "ok" =>
            /\ nodeTypes'[call'.nodeId] = call'.type
            /\ \A n \in nodes \ {call'.nodeId} : nodeTypes'[n] = nodeTypes[n]
            /\ IF call'.coordinates.kind = "null"
               THEN nodeCoordinates' = nodeCoordinates
               ELSE nodeCoordinates' =
                      Put(nodeCoordinates, call'.nodeId, call'.coordinates.items)]_vars

\* addNode without coordinates has returned for a node that has a neighbor and
\* stored coordinates: it was in the graph before the call
C19_Witness ==
  /\ call.op = "addNode"
  /\ ret.status = "ok"
  /\ call.coordinates.kind = "null"
  /\ call.nodeId \in DOMAIN nodeCoordinates
  /\ NeighborsOf(call.nodeId) # {}
  /\ nodeTypes[call.nodeId] = call.type

\* C20: getStatistics().totalEdges is the number of distinct edges of the graph,
\* an edge recorded in both directions counted once.
C20_TotalEdges ==
  call.op = "getStatistics" =>
    ret.value.totalEdges = [units |-> Cardinality(DistinctEdges), halves |-> 0]

(***************************************************************************)
(* Vocabulary of the properties of the calls on the Pathfinder.            *)
(***************************************************************************)
PathfinderOps == {"findPath", "findMultiplePaths", "getPathDetails"}

CoordinatesOf(nodeId) ==
  IF nodeId \in DOMAIN nodeCoordinates
  THEN [kind |-> "array", items |-> nodeCoordinates[nodeId]]
  ELSE [kind |-> "null", items |-> <<>>]

C22_PathDetails ==
  call.op = "getPathDetails" =>
    IF call.path.kind # "array" \/ call.path.items = <<>>
    THEN ret.status = "null"
    ELSE LET p == call.path.items
         IN  /\ ret.status = "details"
             /\ ret.path = p
             /\ ret.length = Len(p)
             /\ Len(ret.nodes) = Len(p)
             /\ \A i \in 1..Len(p) :
                  /\ ret.nodes[i].id = p[i]
                  /\ ret.nodes[i].type = TypeOf(p[i])
                  /\ ret.nodes[i].coordinates = CoordinatesOf(p[i])
                  /\ p[i] \notin nodes =>
                       /\ ret.nodes[i].type = "unknown"
                       /\ ret.nodes[i].coordinates.kind = "null"
             /\ ret.summary.start = [id |-> p[1], type |-> TypeOf(p[1])]
             /\ ret.summary.end = [id |-> p[Len(p)], type |-> TypeOf(p[Len(p)])]
             /\ ret.summary.waypointsUsed =
                  Cardinality({i \in 1..Len(p) : IsWaypoint(p[i])})

\* the details of a path from a waypoint with coordinates over an id that is not
\* in the graph and back to the waypoint: two waypoints used
C22_Witness ==
  /\ call.op = "getPathDetails"
  /\ ret.status = "details"
  /\ ret.length = 3
  /\ ret.summary.waypointsUsed = 2
  /\ ret.path[1] = ret.path[3]
  /\ ret.path[2] \notin nodes
  /\ ret.nodes[1].coordinates.kind = "array"

\* the call of findPath with the source put into, or taken out of, excludeNodes
WithSourceExcluded ==
  findPath(Graph, call.sourceId, call.targetId,
           [call.options EXCEPT !.excludeNodes = @ \cup {call.sourceId}])

WithSourceNotExcluded ==
  findPath(Graph, call.sourceId, call.targetId,
           [call.options EXCEPT !.excludeNodes = @ \ {call.sourceId}])

\* C27: a path returned by findPath has no member of excludeNodes after its first
\* node; with the target in excludeNodes and source # target none is returned;
\* whether the source is in excludeNodes makes no difference to the result.
C27_ExcludeNodes ==
  FindPathCalled =>
    /\ PathReturned =>
         \A i \in 2..Len(ret.path) : ret.path[i] \notin call.options.excludeNodes
    /\ (Searched /\ call.targetId \in call.options.excludeNodes) => NullReturned
    /\ SameResult(ret, WithSourceExcluded)
    /\ SameResult(ret, WithSourceNotExcluded)

\* the excluded target is a neighbor of the source that the routing rule allows,
\* and none was returned
C27_Witness ==
  /\ NullReturned
  /\ call.options.excludeNodes = {call.targetId}
  /\ call.options.maxDepth = DefaultMaxDepth
  /\ AllowedHop(call.sourceId, call.targetId)
  /\ WithSourceExcluded.status = "null"

\* C28: with allowDirectFixtureConnections false, findPath(s, t), s # t, returns
\* none when s or t is Unknown-typed, and no returned path of two or more nodes
\* has an Unknown-typed node.
C28_UnknownNeverRouted ==
  (FindPathCalled /\ ~call.options.allowDirectFixtureConnections) =>
    /\ (Searched /\ (IsUnknown(call.sourceId) \/ IsUnknown(call.targetId)))
         => NullReturned
    /\ (PathReturned /\ Len(ret.path) >= 2) =>
         \A i \in 1..Len(ret.path) : ~IsUnknown(ret.path[i])

\* an Unknown-typed source next to a waypoint target, no exclusions, default
\* maxDepth, flag not set: none
C28_Witness ==
  /\ NullReturned
  /\ ~call.options.allowDirectFixtureConnections
  /\ call.options.excludeNodes = {}
  /\ call.options.maxDepth = DefaultMaxDepth
  /\ IsUnknown(call.sourceId) /\ IsWaypoint(call.targetId)
  /\ HasEdge(call.sourceId, call.targetId)

\* C29: the first path of findMultiplePaths is the path of findPath with the
\* same maxDepth and flag and no excludeNodes, whatever excludeNodes the caller
\* passed (and there is no first path when that search finds none); every later
\* path is the path of findPath with the same maxDepth and flag and the interior
\* nodes of the earlier paths excluded.
C29_OwnExclusionSet ==
  PathsReturned =>
    /\ call.maxPaths >= 1 =>
         IF NextSearch(0).status = "path"
         THEN ret.paths # <<>> /\ ret.paths[1] = NextSearch(0).path
         ELSE ret.paths = <<>>
    /\ \A i \in 1..Len(ret.paths) : ret.paths[i] = NextSearch(i - 1).path

\* the caller excluded the only interior node of the path that was returned,
\* under a maxDepth of 2
C29_Witness ==
  /\ PathsReturned
  /\ Len(ret.paths) = 1
  /\ Len(ret.paths[1]) = 3
  /\ call.options.excludeNodes = {ret.paths[1][2]}
  /\ call.options.maxDepth = 2

(***************************************************************************)
(* The states of the while loop of the findPath call, from the start to    *)
(* the state in which it ends.                                             *)
(***************************************************************************)
RECURSIVE LoopStates(_)
LoopStates(st) ==
  IF st.found # NoPath \/ ~LoopContinues(call.options, st)
  THEN {st}
  ELSE {st} \cup LoopStates(Expand(Graph, call.targetId, call.options, st))

LastNodes(queue) == {queue[i][Len(queue[i])] : i \in 1..Len(queue)}

\* C30: in every state of the loop the queued paths end at different nodes, all
\* marked visited; the loop runs at most as many times as the graph has nodes,
\* whatever maxDepth is, and ends with a path or with none.
C30_EnqueuedOnce ==
  Searched =>
    /\ \A st \in LoopStates(SearchStart(call.sourceId)) :
         /\ Cardinality(LastNodes(st.queue)) = Len(st.queue)
         /\ LastNodes(st.queue) \subseteq st.visited
         /\ st.iterations <= Cardinality(nodes)
    /\ ret.search \in LoopStates(SearchStart(call.sourceId))
    /\ ret.status \in {"path", "null"}

\* the search ran three times on a graph of four nodes with a cycle and found none
C30_Witness ==
  /\ NullReturned
  /\ Cardinality(nodes) = 4
  /\ ret.search.iterations = 3
  /\ call.options.maxDepth = DefaultMaxDepth
  /\ \E u \in nodes, v \in nodes :
       /\ {u, v} \cap {call.sourceId, call.targetId} = {}
       /\ HasEdge(u, v) /\ HasEdge(call.sourceId, u) /\ HasEdge(call.sourceId, v)

\* C26: an addNode call that throws leaves the node set, the type map, the
\* coordinate map and the adjacency structure as they were, and after every step
\* the node set, the keys of the type map and the keys of the adjacency
\* structure are the same set.
C26_FailingAddNodeAtomic ==
  [][/\ (call'.op = "addNode" /\ ret'.status = "throw") => Graph' = Graph
     /\ nodes' = DOMAIN nodeTypes'
     /\ nodes' = DOMAIN adjacencyList']_vars

(***************************************************************************)
(* Vocabulary of the loader's properties: the k-th outcome of fetch in a   *)
(* call, the first of the first n outcomes that is a FeatureCollection (0  *)
(* when there is none), and k fetch calls with a delay between each two.   *)
(***************************************************************************)
OutcomeAt(k) ==
  IF k <= Len(call.fetch.once) THEN call.fetch.once[k] ELSE call.fetch.then

IsFeatureCollection(outcome) ==
  outcome.kind = "json" /\ outcome.data.type = "FeatureCollection"

FirstValid(n) ==
  LET valid == {k \in 1..n : IsFeatureCollection(OutcomeAt(k))}
  IN  IF valid = {} THEN 0 ELSE CHOOSE k \in valid : \A j \in valid : k <= j

FetchesWithDelaysBetween(k) ==
  [i \in 1..(IF k = 0 THEN 0 ELSE 2 * k - 1) |->
     IF i % 2 = 1 THEN "fetch" ELSE "delay"]

ValidUrl(url) == url.kind = "string" /\ url.text # ""

\* C23: loadGeoJSON with a valid URL fetches until the first attempt that yields
\* a FeatureCollection and returns it, never fetches more than retryAttempts
\* times, delays only between attempts, and when all retryAttempts attempts
\* fail rejects with a DataLoadingError after exactly retryAttempts fetch calls;
\* with an empty or non-string URL it rejects with a DataLoadingError and does
\* not fetch.
C23_RetryContract ==
  call.op = "loadGeoJSON" =>
    IF ~ValidUrl(call.url)
    THEN /\ ret.status = "rejected"
         /\ ret.error.name = "DataLoadingError"
         /\ ret.log = <<>>
    ELSE LET k == FirstValid(call.options.retryAttempts)
         IN  IF k > 0
             THEN /\ ret.status = "resolved"
                  /\ ret.value = OutcomeAt(k).data
                  /\ ret.log = FetchesWithDelaysBetween(k)
             ELSE /\ ret.status = "rejected"
                  /\ ret.error.name = "DataLoadingError"
                  /\ ret.log = FetchesWithDelaysBetween(call.options.retryAttempts)

\* C24: loadMultipleGeoJSON rejects with a DataLoadingError when at least one of
\* the files failed to load while another loaded.
C24_PartialFailureRejects ==
  (/\ call.op = "loadMultipleGeoJSON"
   /\ call.urls.kind = "array"
   /\ ret.errors # <<>>
   /\ Len(ret.errors) < Len(call.urls.items))
  => (ret.status = "rejected" /\ ret.error.name = "DataLoadingError")

\* C25: loadAndBuildGraph resolves with the graph built from the main data when
\* the main file loaded and the fixture files failed to load, and rejects, with
\* a DataLoadingError, only when the main file could not be loaded.
C25_FixtureFailuresTolerated ==
  call.op = "loadAndBuildGraph" =>
    /\ (ret.main = "resolved" /\ ret.fixtures = "rejected") =>
         /\ ret.status = "resolved"
         /\ ret.graph =
              buildGraph(OutcomeAt(FirstValid(call.options.retryAttempts)).data,
                         <<>>).graph
    /\ ret.status = "rejected" =>
         (ret.error.name = "DataLoadingError" /\ ret.main = "rejected")

====
